---- MODULE Spec2Model ----
(***************************************************************************)
(* The just-in-time queue of queue/jit.go: a slice of items kept sorted by *)
(* time under the mutex mu, a channel `changed` that is closed and         *)
(* replaced when the first item changes, and the mutex nextMu that         *)
(* serialises the callers of Next.  Goroutines are the members of          *)
(* Producers (Add, Schedule), of which the Owners also call IsEmpty and    *)
(* Destroy, and of Consumers (Next).  Every action is one step of one      *)
(* goroutine: a call, a critical section of mu (taken whole, from Lock to  *)
(* Unlock), a wake-up or a return.  An item that next removes is returned  *)
(* with mu held, as the deferred Unlock runs at the return.  A panic ends  *)
(* the program.  The clock is the variable now.                            *)
(***************************************************************************)
EXTENDS Integers, Sequences, FiniteSets, TLC

\* ---------------------------------------------------------------- bounds
MaxItems == 2      \* items a live queue accepts in one behaviour
MaxTime == 2       \* the clock runs over 0..MaxTime

Producers == {"p1", "p2"}
Owners == {"p2"}
Consumers == {"c1", "c2"}
Threads == Producers \cup Consumers
Times == 0..MaxTime

\* ------------------------------------------------------------- constants
None == "none"                       \* an unlocked sync.Mutex
NilChan == 0                         \* the nil channel
NoItem == [id |-> 0, time |-> 0, hasItem |-> FALSE, item |-> "nil"]   \* a nil JITItem
NilValue == "nil"                    \* the nil interface{} value
Payloads == {"nil", "v"}             \* what Schedule may be given as i

VARIABLES
    now,        \* time.Now()
    queue,      \* q.queue
    changed,    \* q.changed: a channel (1, 2, ...) or NilChan
    closed,     \* the channels that have been closed
    chans,      \* the number of channels made so far
    mu,         \* holder of q.mu, or None
    nextMu,     \* holder of q.nextMu, or None
    pc,         \* where each goroutine is
    it,         \* next: the local `i`
    ch,         \* next: the local `changed`
    rv,         \* next: the value it returns
    result,     \* IsEmpty: the value it returns
    panicked,   \* a goroutine panicked (the program is gone)
    accepted,   \* history: the number of items appended to q.queue so far
    delivered,  \* history: the items Next returned, in order
    destroyed,  \* history: Destroy has run
    started,    \* history: some Next call has been made
    late        \* history: an Add was running or made after the first Next call

vars == <<now, queue, changed, closed, chans, mu, nextMu, pc, it, ch, rv,
          result, panicked, accepted, delivered, destroyed, started, late>>

\* ------------------------------------------------------------ jitSlice
\* A comparison against the order of time.
LessReversed(a, b) == a.time > b.time

\* jitSlice.Less: s[i].Time().Before(s[j].Time())
Less(a, b) == a.time < b.time

\* No element is Less than the one before it: what sort.Sort establishes.
IsSorted(s) == \A k \in 1..(Len(s) - 1) : ~Less(s[k + 1], s[k])

Perms(s) ==
    {p \in [1..Len(s) -> 1..Len(s)] : \A a, b \in 1..Len(s) : a # b => p[a] # p[b]}

\* A sort that leaves the slice as it is.
SortNothing(s) == {s}

\* A sort that overwrites every item with the first one.
SortOverwriting(s) == {[k \in 1..Len(s) |-> s[1]]}

\* sort.Sort(q.queue): some sorted rearrangement; sort.Sort is not stable, so
\* items of equal time may end in any order.
SortResults(s) ==
    {t \in {[k \in 1..Len(s) |-> s[p[k]]] : p \in Perms(s)} : IsSorted(t)}

\* A queue of one item counts as empty.
isEmptyShort(q) == Len(q) <= 1

\* jitQueue.isEmpty
isEmpty(q) == Len(q) = 0

\* A fast path that skips the sort for every append to an existing queue.
AppendedAlways(q) == Len(q) > 1

\* add, line 86: the item was appended chronologically (in existing queue)
AppendedChronologically(q) ==
    Len(q) > 1 /\ q[Len(q)].time > q[Len(q) - 1].time

\* The first item is taken as unchanged whenever the queue existed before.
FirstUnchangedExisting(q, f) == Len(q) > 1

\* The first item is compared without the test for an existing queue.
FirstUnchangedAny(q, f) == f.id = q[1].id

\* The first item is compared by its time, not as the item it is.
FirstUnchangedByTime(q, f) == Len(q) > 1 /\ f.time = q[1].time

\* add, line 93: first item (in existing queue) unchanged
FirstUnchanged(q, f) == Len(q) > 1 /\ f.id = q[1].id

\* A queue that never counts as destroyed.
IsDestroyedNever(c) == FALSE

\* add, line 78, and next, line 122: the queue was destroyed
IsDestroyed(c) == c = NilChan

\* After where Before is meant.
ExpiredReversed(i, t) == i.time > t

\* No item counts as expired.
ExpiredNever(i, t) == FALSE

\* next, line 130: i.Time().Before(time.Now())
Expired(i, t) == i.time < t

\* A timer that never fires.
TimerNever(i, t) == FALSE

\* next, line 146: <-time.After(time.Until(i.Time())) can be received
TimerFired(i, t) == t >= i.time

\* The test after the timer without the comparison of the items.
StillFirstAny(q, i) == ~isEmpty(q)

\* next, line 148: !q.isEmpty() && i == q.queue[0]
StillFirst(q, i) == ~isEmpty(q) /\ i.id = q[1].id

\* Next, lines 109-115: nil stays nil; a hasItem yields getItem(); anything
\* else is returned as it is.
Unwrap(r) ==
    IF r = NoItem THEN NilValue
    ELSE IF r.hasItem THEN r.item
    ELSE "item"

\* A mutex that does not exclude.
CanLockAlways(m) == TRUE

\* sync.Mutex: Lock succeeds on an unlocked mutex
CanLock(m) == m = None

\* An unlock that leaves the mutex with its holder.
UnlockKeep(m, self) == m

\* sync.Mutex: Unlock by the holder
Unlock(m, self) == IF m = self THEN None ELSE m

\* close(c) panics on a nil channel and on a closed one
ClosePanics(c) == c = NilChan \/ c \in closed

\* A notification that installs the channel it has just closed.
NewChanSame == changed

\* add, line 98: make(chan struct{}), a channel that did not exist before
NewChan == chans + 1

\* The mutex stays with the consumer after the critical section.
MuAfterHeld(self, removed) == self

\* next, lines 123, 131, 136, 149 and 154: q.mu after a critical section of
\* next.  The unlock is deferred to the return when an item was removed.
MuAfter(self, removed) == IF removed THEN self ELSE None

\* Destroy without the close.
DestroyClosedSkip == closed

\* Destroy, line 173: close(q.changed)
DestroyClosed == closed \cup {changed}

\* ------------------------------------------------------------------ Init
\* NewJIT: an empty queue and a fresh channel.
Init ==
    /\ now = 0
    /\ queue = <<>>
    /\ changed = 1
    /\ closed = {}
    /\ chans = 1
    /\ mu = None
    /\ nextMu = None
    /\ pc = [t \in Threads |-> "idle"]
    /\ it = [t \in Consumers |-> NoItem]
    /\ ch = [t \in Consumers |-> NilChan]
    /\ rv = [t \in Consumers |-> NoItem]
    /\ result = [t \in Producers |-> "none"]
    /\ panicked = FALSE
    /\ accepted = 0
    /\ delivered = <<>>
    /\ destroyed = FALSE
    /\ started = FALSE
    /\ late = FALSE

\* ----------------------------------------------------------------- clock
Tick ==
    /\ ~panicked
    /\ now < MaxTime
    /\ now' = now + 1
    /\ UNCHANGED <<queue, changed, closed, chans, mu, nextMu, pc, it, ch, rv,
                   result, panicked, accepted, delivered, destroyed, started, late>>

\* ------------------------------------------------------- Add and Schedule
InAdd == {p \in Producers : pc[p] \in {"addLock", "scheduleLock"}}

AddCall(p) ==
    /\ ~panicked
    /\ pc[p] = "idle"
    /\ accepted + Cardinality(InAdd) < MaxItems
    /\ late' = (late \/ started)
    /\ pc' = [pc EXCEPT ![p] = "addLock"]
    /\ UNCHANGED <<now, queue, changed, closed, chans, mu, nextMu, it, ch, rv,
                   result, panicked, accepted, delivered, destroyed, started>>

ScheduleCall(p) ==
    /\ ~panicked
    /\ pc[p] = "idle"
    /\ accepted + Cardinality(InAdd) < MaxItems
    /\ late' = (late \/ started)
    /\ pc' = [pc EXCEPT ![p] = "scheduleLock"]
    /\ UNCHANGED <<now, queue, changed, closed, chans, mu, nextMu, it, ch, rv,
                   result, panicked, accepted, delivered, destroyed, started>>

\* add, lines 78-98, on the item i, under q.mu.  The appended item is a new
\* object: its id is its rank among the accepted.
add(i) ==
    IF IsDestroyed(changed)
    THEN UNCHANGED <<queue, accepted, changed, closed, chans>>
    ELSE LET appended == Append(queue, [i EXCEPT !.id = accepted + 1])
             first == appended[1]
         IN  /\ accepted' = accepted + 1
             /\ IF AppendedChronologically(appended)
                THEN /\ queue' = appended
                     /\ UNCHANGED <<changed, closed, chans>>
                ELSE \E s \in SortResults(appended) :
                       /\ queue' = s
                       /\ IF FirstUnchanged(s, first)
                          THEN UNCHANGED <<changed, closed, chans>>
                          ELSE /\ closed' = closed \cup {changed}
                               /\ changed' = NewChan
                               /\ chans' = chans + 1

\* Add, lines 72-74: the critical section, for an item of the caller's own
\* type (it has no getItem) with any time.
Add(p) ==
    /\ ~panicked
    /\ pc[p] = "addLock"
    /\ CanLock(mu)
    /\ \E t \in Times : add([id |-> 0, time |-> t, hasItem |-> FALSE, item |-> "nil"])
    /\ pc' = [pc EXCEPT ![p] = "idle"]
    /\ UNCHANGED <<now, mu, nextMu, it, ch, rv, result, panicked, delivered,
                   destroyed, started, late>>

\* Schedule, line 102: q.Add(&jitItem{item: i, time: time}), any i and time
Schedule(p) ==
    /\ ~panicked
    /\ pc[p] = "scheduleLock"
    /\ CanLock(mu)
    /\ \E t \in Times, v \in Payloads :
         add([id |-> 0, time |-> t, hasItem |-> TRUE, item |-> v])
    /\ pc' = [pc EXCEPT ![p] = "idle"]
    /\ UNCHANGED <<now, mu, nextMu, it, ch, rv, result, panicked, delivered,
                   destroyed, started, late>>

\* ---------------------------------------------------------------- IsEmpty
IsEmptyCall(p) ==
    /\ ~panicked
    /\ pc[p] = "idle"
    /\ pc' = [pc EXCEPT ![p] = "isEmptyLock"]
    /\ UNCHANGED <<now, queue, changed, closed, chans, mu, nextMu, it, ch, rv,
                   result, panicked, accepted, delivered, destroyed, started, late>>

\* IsEmpty, lines 160-162: the critical section
IsEmpty(p) ==
    /\ ~panicked
    /\ pc[p] = "isEmptyLock"
    /\ CanLock(mu)
    /\ result' = [result EXCEPT ![p] = IF isEmpty(queue) THEN "true" ELSE "false"]
    /\ pc' = [pc EXCEPT ![p] = "isEmptyRet"]
    /\ UNCHANGED <<now, queue, changed, closed, chans, mu, nextMu, it, ch, rv,
                   panicked, accepted, delivered, destroyed, started, late>>

\* IsEmpty has returned; the caller drops the answer
IsEmptyReturn(p) ==
    /\ ~panicked
    /\ pc[p] = "isEmptyRet"
    /\ result' = [result EXCEPT ![p] = "none"]
    /\ pc' = [pc EXCEPT ![p] = "idle"]
    /\ UNCHANGED <<now, queue, changed, closed, chans, mu, nextMu, it, ch, rv,
                   panicked, accepted, delivered, destroyed, started, late>>

\* ---------------------------------------------------------------- Destroy
DestroyCall(p) ==
    /\ ~panicked
    /\ pc[p] = "idle"
    /\ pc' = [pc EXCEPT ![p] = "destroyLock"]
    /\ UNCHANGED <<now, queue, changed, closed, chans, mu, nextMu, it, ch, rv,
                   result, panicked, accepted, delivered, destroyed, started, late>>

\* Destroy, lines 170-174: close(q.changed) panics on a nil channel, after the
\* queue was replaced; the deferred q.mu.Unlock() runs either way.
Destroy(p) ==
    /\ ~panicked
    /\ pc[p] = "destroyLock"
    /\ CanLock(mu)
    /\ queue' = <<>>
    /\ IF ClosePanics(changed)
       THEN /\ panicked' = TRUE
            /\ pc' = [pc EXCEPT ![p] = "panic"]
            /\ UNCHANGED <<changed, closed, destroyed>>
       ELSE /\ closed' = DestroyClosed
            /\ changed' = NilChan
            /\ destroyed' = TRUE
            /\ pc' = [pc EXCEPT ![p] = "idle"]
            /\ UNCHANGED panicked
    /\ UNCHANGED <<now, chans, mu, nextMu, it, ch, rv, result, accepted,
                   delivered, started, late>>

\* ------------------------------------------------------------------- Next
NextCall(c) ==
    /\ ~panicked
    /\ pc[c] = "idle"
    /\ pc' = [pc EXCEPT ![c] = "nextMuLock"]
    /\ started' = TRUE
    /\ late' = (late \/ InAdd # {})
    /\ UNCHANGED <<now, queue, changed, closed, chans, mu, nextMu, it, ch, rv,
                   result, panicked, accepted, delivered, destroyed>>

\* Next, line 106: q.nextMu.Lock(); next, line 119: var i JITItem
NextMuLock(c) ==
    /\ ~panicked
    /\ pc[c] = "nextMuLock"
    /\ CanLock(nextMu)
    /\ nextMu' = c
    /\ it' = [it EXCEPT ![c] = NoItem]
    /\ pc' = [pc EXCEPT ![c] = "loop"]
    /\ UNCHANGED <<now, queue, changed, closed, chans, mu, ch, rv, result,
                   panicked, accepted, delivered, destroyed, started, late>>

\* next, lines 121-136: the critical section at the top of the loop.  A
\* removed item is returned with q.mu still held: the unlock is deferred to
\* the return.
Check(c) ==
    /\ ~panicked
    /\ pc[c] = "loop"
    /\ CanLock(mu)
    /\ IF IsDestroyed(changed)
       THEN /\ rv' = [rv EXCEPT ![c] = NoItem]
            /\ mu' = MuAfter(c, FALSE)
            /\ pc' = [pc EXCEPT ![c] = "ret"]
            /\ UNCHANGED <<queue, it, ch>>
       ELSE /\ ch' = [ch EXCEPT ![c] = changed]
            /\ IF ~isEmpty(queue)
               THEN /\ it' = [it EXCEPT ![c] = queue[1]]
                    /\ IF Expired(queue[1], now)
                       THEN /\ queue' = Tail(queue)
                            /\ rv' = [rv EXCEPT ![c] = queue[1]]
                            /\ mu' = MuAfter(c, TRUE)
                            /\ pc' = [pc EXCEPT ![c] = "ret"]
                       ELSE /\ mu' = MuAfter(c, FALSE)
                            /\ pc' = [pc EXCEPT ![c] = "wait"]
                            /\ UNCHANGED <<queue, rv>>
               ELSE /\ mu' = MuAfter(c, FALSE)
                    /\ pc' = [pc EXCEPT ![c] = "wait"]
                    /\ UNCHANGED <<queue, it, rv>>
    /\ UNCHANGED <<now, changed, closed, chans, nextMu, result, panicked,
                   accepted, delivered, destroyed, started, late>>

\* next, lines 139 and 144: <-changed is received once the channel is closed
WaitChanged(c) ==
    /\ ~panicked
    /\ pc[c] = "wait"
    /\ ch[c] \in closed
    /\ pc' = [pc EXCEPT ![c] = "loop"]
    /\ ch' = [ch EXCEPT ![c] = NilChan]
    /\ UNCHANGED <<now, queue, changed, closed, chans, mu, nextMu, it, rv,
                   result, panicked, accepted, delivered, destroyed, started, late>>

\* next, line 146: the timer of the select fires
WaitTimer(c) ==
    /\ ~panicked
    /\ pc[c] = "wait"
    /\ it[c] # NoItem
    /\ TimerFired(it[c], now)
    /\ pc' = [pc EXCEPT ![c] = "timerLock"]
    /\ ch' = [ch EXCEPT ![c] = NilChan]
    /\ UNCHANGED <<now, queue, changed, closed, chans, mu, nextMu, it, rv,
                   result, panicked, accepted, delivered, destroyed, started, late>>

\* next, lines 147-154: the critical section after the timer
TimerCheck(c) ==
    /\ ~panicked
    /\ pc[c] = "timerLock"
    /\ CanLock(mu)
    /\ IF StillFirst(queue, it[c])
       THEN /\ queue' = Tail(queue)
            /\ rv' = [rv EXCEPT ![c] = it[c]]
            /\ mu' = MuAfter(c, TRUE)
            /\ pc' = [pc EXCEPT ![c] = "ret"]
       ELSE /\ mu' = MuAfter(c, FALSE)
            /\ pc' = [pc EXCEPT ![c] = "loop"]
            /\ UNCHANGED <<queue, rv>>
    /\ UNCHANGED <<now, changed, closed, chans, nextMu, it, ch, result,
                   panicked, accepted, delivered, destroyed, started, late>>

\* next returns (its deferred q.mu.Unlock() runs), Next, lines 108-115, turns
\* the value into its own and returns (its deferred q.nextMu.Unlock() runs).
\* q.mu was held since the item was removed, so `accepted` is what it was then.
NextReturn(c) ==
    /\ ~panicked
    /\ pc[c] = "ret"
    /\ mu' = Unlock(mu, c)
    /\ nextMu' = Unlock(nextMu, c)
    /\ delivered' = IF rv[c] = NoItem THEN delivered
                    ELSE Append(delivered, [e |-> rv[c], n |-> accepted])
    /\ it' = [it EXCEPT ![c] = NoItem]
    /\ ch' = [ch EXCEPT ![c] = NilChan]
    /\ rv' = [rv EXCEPT ![c] = NoItem]
    /\ pc' = [pc EXCEPT ![c] = "idle"]
    /\ UNCHANGED <<now, queue, changed, closed, chans, result, panicked,
                   accepted, destroyed, started, late>>

\* ------------------------------------------------------------------ Next
\* Every step but the call of Destroy.
Steps ==
    \/ Tick
    \/ \E p \in Producers : AddCall(p)
    \/ \E p \in Producers : ScheduleCall(p)
    \/ \E p \in Producers : Add(p)
    \/ \E p \in Producers : Schedule(p)
    \/ \E p \in Owners : IsEmptyCall(p)
    \/ \E p \in Owners : IsEmpty(p)
    \/ \E p \in Owners : IsEmptyReturn(p)
    \/ \E p \in Owners : Destroy(p)
    \/ \E c \in Consumers : NextCall(c)
    \/ \E c \in Consumers : NextMuLock(c)
    \/ \E c \in Consumers : Check(c)
    \/ \E c \in Consumers : WaitChanged(c)
    \/ \E c \in Consumers : WaitTimer(c)
    \/ \E c \in Consumers : TimerCheck(c)
    \/ \E c \in Consumers : NextReturn(c)

Next == Steps \/ \E p \in Owners : DestroyCall(p)

Spec == Init /\ [][Next]_vars

\* The owner keeps to the contract of Destroy: it is called at most once.
DestroyCallOnce(p) ==
    /\ ~destroyed
    /\ \A o \in Owners : pc[o] # "destroyLock"
    /\ DestroyCall(p)

NextOnce == Steps \/ \E p \in Owners : DestroyCallOnce(p)

\* The scheduler runs every goroutine that can take a step, and a goroutine
\* waiting in nextMu.Lock() gets the mutex if it keeps being unlocked.  No
\* call has to be made and the clock does not have to advance.
Fairness ==
    /\ \A p \in Producers : WF_vars(Add(p)) /\ WF_vars(Schedule(p))
    /\ \A p \in Owners :
         WF_vars(IsEmpty(p)) /\ WF_vars(IsEmptyReturn(p)) /\ WF_vars(Destroy(p))
    /\ \A c \in Consumers :
         /\ SF_vars(NextMuLock(c))
         /\ WF_vars(Check(c))
         /\ WF_vars(WaitChanged(c))
         /\ WF_vars(WaitTimer(c))
         /\ WF_vars(TimerCheck(c))
         /\ WF_vars(NextReturn(c))

FairSpec == Init /\ [][NextOnce]_vars /\ Fairness

\* The clock keeps advancing (as far as it goes) and, as long as a consumer is
\* free, a call of Next is made.
Progress ==
    /\ WF_vars(Tick)
    /\ WF_vars(\E c \in Consumers : NextCall(c))

LiveSpec == Init /\ [][NextOnce]_vars /\ Fairness /\ Progress

\* ------------------------------------------------------------ properties
InNext == {c \in Consumers : pc[c] \in {"loop", "wait", "timerLock", "ret"}}

\* The consumers about to return an item they removed.
Returning == {c \in Consumers : pc[c] = "ret" /\ rv[c] # NoItem}

NonDecreasing(d) == \A j, k \in 1..Len(d) : j < k => d[j].e.time <= d[k].e.time

\* C1: no early delivery.  Whenever Next is about to return an item, removed
\* on the expiry branch or on the timer branch, the item's time is not after
\* the current time.
C1_NoEarlyDelivery == \A c \in Returning : rv[c].time <= now

\* An item is returned at the very instant it is due, after the clock moved.
C1_Witness == \E c \in Returning : rv[c].time = now /\ now > 0

\* C5: the order property of a pre-loaded queue.  When every Add/Schedule
\* completed before the first Next call and the queue is live, the items
\* returned so far are in non-decreasing time order, each is returned once,
\* and the returned, the removed and the stored items together are all the
\* accepted ones, so that n calls of Next return all n items.
C5_PreloadedOrder ==
    (~late /\ ~destroyed) =>
        /\ NonDecreasing(delivered)
        /\ \A j, k \in 1..Len(delivered) : j # k => delivered[j].e.id # delivered[k].e.id
        /\ Len(delivered) + Cardinality(Returning) + Len(queue) = accepted

\* A pre-loaded queue returned all its items, in the reverse of the order in
\* which they were inserted.
C5_Witness ==
    /\ ~late /\ ~destroyed
    /\ Len(delivered) = accepted /\ accepted > 1
    /\ delivered[1].e.id > delivered[2].e.id
    /\ delivered[1].e.time < delivered[2].e.time

\* C6, as stated: on a live queue the times of the items returned by
\* successive Next calls are non-decreasing, whatever the producers do.
C6_NonDecreasingDelivery == ~destroyed => NonDecreasing(delivered)

\* C6, amended: an item returned after an item of a later time was inserted
\* after that item was removed.  Among the items stored together, delivery is
\* in non-decreasing time order.
C6_OrderAmongStored ==
    \A j, k \in 1..Len(delivered) :
        (j < k /\ delivered[k].e.time < delivered[j].e.time)
            => delivered[k].e.id > delivered[j].n

\* Two items were returned in time order against their insertion order, with
\* producers running after the first Next call.
C6_Witness ==
    /\ late
    /\ Len(delivered) > 1
    /\ delivered[2].e.id < delivered[1].e.id
    /\ delivered[2].e.id <= delivered[1].n
    /\ delivered[1].e.time < delivered[2].e.time

\* C7: no operation panics on a destroyed queue.
C7_NoPanic == ~panicked

\* C8: Next returns the nil value iff the queue was destroyed before the call
\* or while it waited.  An item is removed only from a live queue, and q.mu
\* stays held until next returns, so a call about to return sees `destroyed`
\* exactly when it found the queue destroyed.
C8_EmptyIffDestroyed ==
    \A c \in Consumers : pc[c] = "ret" => (Unwrap(rv[c]) = NilValue <=> destroyed)

\* C10: at most one Next call is in the loop of next, and no item is returned
\* twice: the returned items and the one being returned are all different.
C10_ExactlyOnce ==
    /\ Cardinality(InNext) <= 1
    /\ \A j, k \in 1..Len(delivered) : j # k => delivered[j].e.id # delivered[k].e.id
    /\ \A c \in Returning :
         /\ \A k \in 1..Len(delivered) : delivered[k].e.id # rv[c].id
         /\ \A k \in 1..Len(queue) : queue[k].id # rv[c].id

\* One consumer returns an item while the other waits for nextMu, after an
\* earlier item was returned.
C10_Witness ==
    /\ Returning # {}
    /\ \E c \in Consumers : pc[c] = "nextMuLock"
    /\ delivered # <<>>

\* ----------------------------------------------------- temporal properties
\* The consumers in the loop of next that have removed nothing yet.
Looping == {c \in Consumers : pc[c] \in {"loop", "wait", "timerLock"}}

Ids == 1..MaxItems

Stored(b) == \E k \in 1..Len(queue) : queue[k].id = b

IsFirst(b) == queue # <<>> /\ queue[1].id = b

\* The consumer is about to return item b.
Got(c, b) == pc[c] = "ret" /\ rv[c].id = b

\* Item b is stored but another item took the first place.
Displaced(b) == Stored(b) /\ ~IsFirst(b)

\* The consumer took a first item that is still stored, and item b, of an
\* earlier time, is now the first.
Preempted(c, b) ==
    /\ c \in Looping
    /\ it[c] # NoItem /\ Stored(it[c].id)
    /\ IsFirst(b)
    /\ queue[1].time < it[c].time

\* C2: preemption by an earlier item.  No item is returned while an item of
\* an earlier time is stored; and when the consumer waits for an item due at
\* T2 and an item due at T1 < T2 has become the first, then from T1 on,
\* without the clock having to reach T2, the consumer returns the T1 item
\* (unless the queue is destroyed or yet another item takes the first place).
C2_Preemption ==
    /\ [](\A c \in Returning : \A k \in 1..Len(queue) : rv[c].time <= queue[k].time)
    /\ \A c \in Consumers, b \in Ids :
         (Preempted(c, b) /\ queue[1].time <= now)
             ~> (Got(c, b) \/ destroyed \/ Displaced(b))

\* The consumer waits on the timer of a later item while an earlier item,
\* not yet due, is the first.
C2_Witness ==
    \E c \in Consumers, b \in Ids :
        Preempted(c, b) /\ pc[c] = "wait" /\ now < queue[1].time

\* The consumer found the queue empty, and item b, already due, is the first.
WokenOnEmpty(c, b) ==
    /\ pc[c] \in {"loop", "wait"}
    /\ it[c] = NoItem
    /\ IsFirst(b)
    /\ queue[1].time <= now

\* C3: no missed wake-up on an empty queue.  A consumer that found the queue
\* empty, wherever it is in the loop, returns an item that was inserted
\* already due, with no further insertion and no clock advance (unless the
\* queue is destroyed or another item takes the first place).
C3_NoMissedWakeup ==
    \A c \in Consumers, b \in Ids :
        WokenOnEmpty(c, b) ~> (Got(c, b) \/ destroyed \/ Displaced(b))

\* The consumer waits on the channel it took from the empty queue, and an
\* item due at this very instant was inserted.
C3_Witness ==
    \E c \in Consumers, b \in Ids :
        WokenOnEmpty(c, b) /\ pc[c] = "wait" /\ queue[1].time = now

\* C4: Destroy unblocks all waiters.  After Destroy a Next call never returns
\* an item and never waits on an open channel, and every call that is in the
\* loop of next or queued on nextMu returns nil.
C4_DestroyUnblocks ==
    /\ [](destroyed => \A c \in Consumers :
            /\ pc[c] = "ret" => rv[c] = NoItem
            /\ pc[c] = "wait" => ch[c] \in closed)
    /\ \A c \in Consumers :
         (destroyed /\ pc[c] \in {"nextMuLock", "loop", "wait", "timerLock"})
             ~> (pc[c] = "ret" /\ rv[c] = NoItem)

\* Destroy has run while one consumer waited in the loop, on the empty queue,
\* and the other was queued on nextMu.
C4_Witness ==
    /\ destroyed
    /\ \E c \in Consumers : pc[c] = "wait" /\ it[c] = NoItem
    /\ \E c \in Consumers : pc[c] = "nextMuLock"

\* C9: destruction is irreversible and Add/Schedule on a destroyed queue is a
\* no-op.  Once Destroy has run, the queue is empty and q.changed is nil in
\* every state, and no step accepts an item or closes a channel.
C9_DestroyedForGood ==
    /\ [](destroyed => (queue = <<>> /\ changed = NilChan))
    /\ [][destroyed => (destroyed' /\ accepted' = accepted /\ closed' = closed)]_vars

\* An Add or Schedule call is under way on a destroyed queue.
C9_Witness == destroyed /\ InAdd # {}

\* ------------------------------------------------------ storage invariants
\* C11: sortedness.  In every state in which q.mu is not held, the times of
\* adjacent stored items are in non-decreasing order, after any Add or
\* Schedule (appended in place or re-sorted, equal times included), any
\* removal by Next and Destroy.
C11_Sorted ==
    mu = None => \A k \in 1..(Len(queue) - 1) : queue[k].time <= queue[k + 1].time

\* Two items are stored, the later inserted one first: add re-sorted them.
C11_Witness ==
    /\ mu = None
    /\ Len(queue) = 2
    /\ queue[1].id > queue[2].id
    /\ queue[1].time < queue[2].time

\* The producers inside Add, Schedule or IsEmpty, before the critical section.
Entering == {p \in Producers : pc[p] \in {"addLock", "scheduleLock", "isEmptyLock"}}

\* C12: Add, Schedule and IsEmpty do not block.  q.mu is only ever held by a
\* consumer that is returning (it needs no other lock to release it, and it
\* holds nextMu already: no deadlock between the two mutexes), and every call
\* of Add, Schedule or IsEmpty completes, whether or not a consumer stays
\* blocked in next or queued on nextMu for ever.
C12_NonBlocking ==
    /\ [](mu # None => (mu \in Consumers /\ pc[mu] = "ret" /\ nextMu = mu))
    /\ \A p \in Producers : (p \in Entering) ~> (p \notin Entering)

\* Add and IsEmpty are entered while one consumer waits on the channel of the
\* empty queue and the other is queued on nextMu.
C12_Witness ==
    /\ \E p \in Producers : pc[p] = "addLock"
    /\ \E p \in Producers : pc[p] = "isEmptyLock"
    /\ \E c \in Consumers : pc[c] = "wait" /\ it[c] = NoItem /\ ch[c] \notin closed
    /\ \E c \in Consumers : pc[c] = "nextMuLock"

\* C13: IsEmpty returns true iff no item is stored when it holds q.mu; so it
\* returns true on a queue that never accepted an item, and again once every
\* accepted item has been returned by Next.
C13_IsEmptyExact ==
    [][\A p \in Owners :
         (pc[p] = "isEmptyLock" /\ pc'[p] = "isEmptyRet") =>
            /\ result'[p] = "true" <=> Len(queue) = 0
            /\ accepted = 0 => result'[p] = "true"
            /\ (~destroyed /\ accepted > 0) =>
                 (result'[p] = "true" <=> Len(delivered) = accepted)]_vars

\* IsEmpty answered true on a live queue of which Next has returned every
\* item, after it had accepted MaxItems of them.
C13_Witness ==
    \E p \in Owners :
        /\ pc[p] = "isEmptyRet" /\ result[p] = "true"
        /\ ~destroyed
        /\ accepted = MaxItems /\ Len(delivered) = accepted

\* ------------------------------------------------------------ notification
\* The identity of the first stored item; 0 when nothing is stored.
FirstId(q) == IF q = <<>> THEN 0 ELSE q[1].id

\* This step closes q.changed, not closed before, and installs a new channel.
FiresOnce ==
    /\ changed \notin closed
    /\ closed' = closed \cup {changed}
    /\ chans' = chans + 1
    /\ changed' = chans' /\ changed' \notin closed'

\* C14: notification on a change of the first item only.  Every Add or
\* Schedule that a live queue accepts closes and replaces q.changed exactly
\* once if the first item after it is another item than the first item before
\* it (as an object, whatever its time; an empty queue before included), and
\* leaves q.changed alone if the first item is the same item.
C14_NotifyOnHeadChange ==
    [][accepted' = accepted + 1 =>
         IF FirstId(queue') # FirstId(queue)
         THEN FiresOnce
         ELSE UNCHANGED <<changed, closed, chans>>]_vars

\* The second accepted item took the first place from the first one: both
\* insertions notified.
C14_Witness ==
    /\ ~destroyed /\ delivered = <<>> /\ Returning = {}
    /\ Len(queue) = 2 /\ accepted = 2
    /\ queue[1].id = 2
    /\ chans = 3 /\ closed = {1, 2} /\ changed = 3

\* -------------------------------------------------------------- suspension
\* The consumers blocked in next: on <-changed alone or in the select.
Blocked == {c \in Consumers : pc[c] = "wait"}

\* C15: q.mu is never held across a suspension.  A consumer that is blocked
\* in next, on the channel or on the timer of an item, does not hold q.mu; it
\* holds nextMu only.
C15_NoLockWhileBlocked ==
    \A c \in Blocked : mu # c /\ nextMu = c

\* A consumer is blocked in the select for an item that is not yet due, on a
\* channel that is still open, and nobody holds q.mu.
C15_Witness ==
    \E c \in Blocked :
        /\ it[c] # NoItem /\ now < it[c].time
        /\ ch[c] \notin closed
        /\ mu = None

\* ------------------------------------------------------------------ timer
\* The consumer's timer fired and the item it was set for is no longer the
\* first stored item.
TimerOutdated(c) ==
    pc[c] = "timerLock" /\ (queue = <<>> \/ queue[1].id # it[c].id)

\* C16: the test after the timer.  When the timer of the item a consumer took
\* has fired, the consumer removes and returns that item only if it is still
\* the first of a non-empty queue; if an Add or Destroy changed the first
\* place meanwhile, next removes nothing, leaves the queue as it is and goes
\* back to the top of its loop.
C16_TimerRevalidation ==
    [][\A c \in Consumers :
         (pc[c] = "timerLock" /\ pc'[c] # "timerLock") =>
            IF TimerOutdated(c)
            THEN /\ pc'[c] = "loop"
                 /\ queue' = queue
                 /\ rv'[c] = NoItem
                 /\ mu' = None
            ELSE /\ pc'[c] = "ret"
                 /\ rv'[c] = it[c] /\ rv'[c] = queue[1]
                 /\ queue' = Tail(queue)]_vars

\* The timer of a stored item has fired after another item took the first
\* place.
C16_Witness ==
    \E c \in Consumers :
        /\ TimerOutdated(c)
        /\ queue # <<>>
        /\ Stored(it[c].id)
        /\ ~destroyed

\* ------------------------------------------------------------ due at once
\* The consumer is at the top of the loop of a Next call in which it has not
\* blocked yet, and the first item of the live queue is one whose time has
\* passed.
FindsDue(c) ==
    /\ pc[c] = "loop" /\ it[c] = NoItem
    /\ ~destroyed
    /\ queue # <<>> /\ queue[1].time < now

\* C17: an item that is already due is returned with no wait.  A Next call
\* that finds, at the top of its loop, a first item whose time has passed
\* removes it in that very critical section, without going to the channel or
\* to a timer and without the clock moving; so a Next call made when such an
\* item is stored and no consumer is in next returns an item (unless the
\* queue is destroyed first), whether or not the clock ever advances again or
\* anything else is inserted.
C17_DueAtOnce ==
    /\ [][\A c \in Consumers :
            (pc[c] = "loop" /\ pc'[c] # "loop" /\ ~IsDestroyed(changed)
                /\ queue # <<>> /\ queue[1].time < now) =>
               /\ pc'[c] = "ret" /\ rv'[c] = queue[1]
               /\ queue' = Tail(queue)
               /\ now' = now]_vars
    /\ \A c \in Consumers :
         FindsDue(c) ~> (pc[c] = "ret" /\ (rv[c] # NoItem \/ destroyed))

\* The only item accepted, in place before the first Next call was made, is
\* being returned after its time, by a call that found the channel of the
\* insertion already replaced.
C17_Witness ==
    \E c \in Returning :
        /\ ~late /\ ~destroyed
        /\ accepted = 1 /\ rv[c].id = 1
        /\ rv[c].time < now
        /\ ch[c] = changed /\ closed = {1}

\* ----------------------------------------------------------------- tokens
\* C18: generations of q.changed.  A channel is closed at most once: every
\* step that replaces q.changed closes the channel it replaces, which was open
\* until then, and no other step closes anything.  On a live queue the close
\* and the installation of a channel never made before happen in one critical
\* section, so that q.changed is open whenever q.mu is free, and the channel a
\* consumer takes in its critical section is open when it takes it.
C18_TokenGenerations ==
    /\ [](~IsDestroyed(changed) => (changed \notin closed /\ changed = chans))
    /\ [][/\ changed' # changed =>
               /\ changed \notin closed
               /\ closed' = closed \cup {changed}
               /\ IsDestroyed(changed') \/ (changed' = chans + 1 /\ chans' = chans + 1)
          /\ changed' = changed => closed' = closed
          /\ \A c \in Consumers :
               (ch'[c] # ch[c] /\ ch'[c] # NilChan) =>
                   (ch'[c] = changed /\ ch'[c] \notin closed)]_vars

\* A consumer is blocked on a channel that has been closed since it took it,
\* two generations back, and the channel now installed on the live queue is
\* open.
C18_Witness ==
    \E c \in Blocked :
        /\ ch[c] \in closed /\ ch[c] + 2 = changed
        /\ ~IsDestroyed(changed) /\ changed \notin closed

\* ----------------------------------------------------------- conservation
\* The identities of the items of a sequence.
IdsOf(q) == {q[k].id : k \in 1..Len(q)}

\* The items of sequence r are those of sequence q, each as often.
SameItems(q, r) ==
    /\ Len(q) = Len(r)
    /\ \A x \in {q[k] : k \in 1..Len(q)} :
         Cardinality({k \in 1..Len(q) : q[k] = x})
             = Cardinality({k \in 1..Len(r) : r[k] = x})

\* C19: conservation of items.  On a live queue with q.mu free, the stored
\* items are the accepted items that Next has not returned, each once.  An
\* Add or Schedule step stores the items that were stored and the new one,
\* dropping and doubling none when it re-sorts, and a step of next removes
\* the one item it is going to return.
C19_Conservation ==
    /\ []((~destroyed /\ mu = None) =>
            /\ Len(queue) + Len(delivered) = accepted
            /\ Cardinality(IdsOf(queue)) = Len(queue)
            /\ IdsOf(queue) \cup {delivered[k].e.id : k \in 1..Len(delivered)}
                   = 1..accepted)
    /\ [][/\ accepted' = accepted + 1 =>
               \E k \in 1..Len(queue') :
                   /\ queue'[k].id = accepted'
                   /\ SameItems(queue,
                                [j \in 1..Len(queue) |->
                                    queue'[IF j < k THEN j ELSE j + 1]])
          /\ \A c \in Consumers :
               (pc'[c] = "ret" /\ pc[c] # "ret" /\ rv'[c] # NoItem) =>
                   /\ queue # <<>>
                   /\ queue = <<rv'[c]>> \o queue'
          /\ (accepted' = accepted /\ destroyed' = destroyed /\ ~panicked' /\ Returning' = Returning)
                 => queue' = queue]_vars

\* On a live queue one of two accepted items has been returned and the first
\* accepted is still stored: add re-sorted the two.
C19_Witness ==
    /\ ~destroyed /\ mu = None
    /\ accepted = 2 /\ Len(delivered) = 1 /\ Len(queue) = 1
    /\ delivered[1].e.id = 2 /\ queue[1].id = 1
    /\ delivered[1].n = 2

\* --------------------------------------------------------------- delivery
\* Item b has been returned by a Next call.
Returned(b) == \E k \in 1..Len(delivered) : delivered[k].e.id = b

====
